---- MODULE Spec2Model ----
(***************************************************************************)
(* GameStore client: the request cache and fetch gateway (ApiManager), its *)
(* five accessors and the DataLoader (src/unnamed/part_000), and the       *)
(* GameStoreManager of src/script.js: cart, theme, stored preferences,     *)
(* setup, search and contact form.                                         *)
(*                                                                         *)
(* Execution is the browser's event loop: every action below is one run    *)
(* of JavaScript from an event (a call, a response, a timer) up to the     *)
(* next await, so the cache is read and written atomically inside an       *)
(* action and calls interleave only at their awaits.                       *)
(*                                                                         *)
(* The variable out is the observable outcome of the last step: the        *)
(* request a call issued, or the value or error it settled with.  The      *)
(* variable stored remembers the entry the latest successful call wrote    *)
(* (clearCache does not touch it), and cleared what the last clearCache    *)
(* removed.  They only record what happened; no action reads them.         *)
(* The variable page is the page as DataLoader fills it.  The variables    *)
(* shop, setup, search and form belong to GameStoreManager; each keeps in  *)
(* its field ev what the last event on it was.  The gateway and the        *)
(* manager share no state: each specification moves one of them.           *)
(***************************************************************************)
EXTENDS Integers, Sequences, FiniteSets, TLC

(* ------------------------------ bounds -------------------------------- *)
\* number of makeRequest calls in one behaviour
MaxCalls == 2
\* number of clock advances in one behaviour
MaxTicks == 2

\* the same, where every call is for one fingerprint
MaxKeyCalls == 3

CallIds == 1..MaxCalls

\* the clock advances by one of these amounts (ms): the timeout, and what is
\* left of the freshness window after it (10000 + 290000 = 300000 exactly)
Steps == {10000, 290000}

(* --------------------------- program constants ------------------------ *)
\* this.requestTimeout = 10000
requestTimeout == 10000
\* Date.now() - cachedData.timestamp < 300000
FreshMs == 300000

\* this.baseUrls
baseUrls == [products |-> "https://fakestoreapi.com/products",
             users    |-> "https://randomuser.me/api"]

(* ------------------------------ JSON values --------------------------- *)
\* A parsed JSON value: an array (of product or category items), an object
\* with a "results" member, or null.
Arr(s)  == [type |-> "array",  items |-> s,    hasResults |-> FALSE, results |-> <<>>]
ObjR(s) == [type |-> "object", items |-> <<>>, hasResults |-> TRUE,  results |-> s]
Null    == [type |-> "null",   items |-> <<>>, hasResults |-> FALSE, results |-> <<>>]
\* "no value": the slot of a call that has not returned
NoData  == [type |-> "none",   items |-> <<>>, hasResults |-> FALSE, results |-> <<>>]

\* an item without the members the renderers read (description, name)
Broken == "broken"

\* the bodies a server may answer with
JsonValues == {Arr(<<"p1", "p2">>), ObjR(<<"u1">>), Null}
\* those of them that are not null (makeRequest does not look into a body)
NonNullValues == {Arr(<<"p1", "p2">>), ObjR(<<"u1">>)}

\* the same, and lists with an item the renderers throw on
PageValues == JsonValues \cup {Arr(<<"p1", Broken>>), ObjR(<<Broken>>)}

\* the statuses a server may answer with
Statuses == {200, 404, 500}

(* ------------------------------ errors -------------------------------- *)
\* A JavaScript error object: its name (the constructor's) and its message,
\* a template string kept as the sequence of its parts.
NoError == [name |-> "none", message |-> <<>>]
\* fetch() rejected because controller.abort() ran
AbortError   == [name |-> "AbortError", message |-> <<"signal is aborted without reason">>]
\* fetch() or the body read rejected by the transport
NetworkError == [name |-> "TypeError", message |-> <<"Failed to fetch">>]
\* response.json() rejected: the body is not JSON
SyntaxError  == [name |-> "SyntaxError", message |-> <<"Unexpected token">>]

\* variant: the message is built from a member the response does not have
HttpErrorNoStatus(status) ==
  [name |-> "Error", message |-> <<"HTTP error! status: ", "undefined">>]

\* new Error(`HTTP error! status: ${response.status}`)
HttpError(status) ==
  [name |-> "Error", message |-> <<"HTTP error! status: ", ToString(status)>>]

\* variant: the catch block rethrows the error it caught
WrapErrorRethrow(e) == e

\* new Error(`Falha ao carregar dados: ${error.message}`)
WrapError(e) ==
  [name |-> "Error", message |-> <<"Falha ao carregar dados: ">> \o e.message]

\* response.ok: the status is in 200..299
ResponseOk(status) == status >= 200 /\ status <= 299

(* ------------------------------ the cache ----------------------------- *)
\* JSON.stringify(options) for the option objects the model passes
Stringify(options) ==
  CASE options = "default" -> "{}"
    [] options = "get"     -> "{\"method\":\"GET\"}"

\* variant: the fingerprint leaves the url out
CacheKeyOptionsOnly(url, options) == <<"_", Stringify(options)>>

\* const cacheKey = `${url}_${JSON.stringify(options)}`
CacheKey(url, options) == url \o <<"_", Stringify(options)>>

\* new Map()
EmptyCache == [k \in {} |-> [data |-> NoData, timestamp |-> 0]]

\* this.cache.has(cacheKey)
CacheHas(cch, key) == key \in DOMAIN cch

\* variants: the window taken in seconds, the comparison inclusive, the
\* comparison inverted
IsFreshSeconds(entry, t) == t - entry.timestamp < 300
IsFreshInclusive(entry, t) == t - entry.timestamp <= FreshMs
IsFreshInverted(entry, t) == t - entry.timestamp > FreshMs

\* Date.now() - cachedData.timestamp < 300000
IsFresh(entry, t) == t - entry.timestamp < FreshMs

\* variant: the catch block drops the entry of the failed request
CatchCacheEvict(cch, key) == [k \in (DOMAIN cch) \ {key} |-> cch[k]]

\* catch (error) { ... }: the catch block leaves the cache as it is
CatchCache(cch, key) == cch

\* variant: an entry already present is kept
CacheSetKeepOld(cch, key, data, t) ==
  [k \in (DOMAIN cch) \cup {key} |->
     IF k \in DOMAIN cch THEN cch[k] ELSE [data |-> data, timestamp |-> t]]

\* variant: a store drops the entries of the other fingerprints
CacheSetAlone(cch, key, data, t) ==
  [k \in {key} |-> [data |-> data, timestamp |-> t]]

\* variant: an entry that is still fresh is kept
CacheSetUnlessFresh(cch, key, data, t) ==
  [k \in (DOMAIN cch) \cup {key} |->
     IF k = key /\ ~(key \in DOMAIN cch /\ t - cch[key].timestamp < FreshMs)
     THEN [data |-> data, timestamp |-> t] ELSE cch[k]]

\* this.cache.set(cacheKey, { data, timestamp: Date.now() })
CacheSet(cch, key, data, t) ==
  [k \in (DOMAIN cch) \cup {key} |->
     IF k = key THEN [data |-> data, timestamp |-> t] ELSE cch[k]]

(* ------------------------------ accessors ----------------------------- *)
Limits     == {6}
Categories == {"electronics"}
Results    == {6}

\* what the page invokes: an accessor, which fixes url and options
AccessorCalls ==
       {[acc |-> "fetchProducts",
         url |-> <<baseUrls.products, "?limit=", ToString(n)>>,
         options |-> "default"] : n \in Limits}
  \cup {[acc |-> "fetchAllProducts",
         url |-> <<baseUrls.products>>, options |-> "default"]}
  \cup {[acc |-> "fetchProductsByCategory",
         url |-> <<baseUrls.products, "/category/", cat>>,
         options |-> "default"] : cat \in Categories}
  \cup {[acc |-> "fetchRandomUsers",
         url |-> <<baseUrls.users, "?results=", ToString(n)>>,
         options |-> "default"] : n \in Results}
  \cup {[acc |-> "fetchCategories",
         url |-> <<baseUrls.products, "/categories">>, options |-> "default"]}

\* makeRequest(url, options) called as such: two urls, two option objects
DirectCalls ==
  {[acc |-> "makeRequest", url |-> u, options |-> o] :
     u \in {<<baseUrls.products>>}, o \in {"default", "get"}}
  \cup {[acc |-> "makeRequest", url |-> <<baseUrls.users>>, options |-> "default"]}

\* variant: every accessor unwraps its response as fetchRandomUsers does
AccessorOutcomeUnwraps(acc, ok, data) ==
  [state |-> "resolved",
   value |-> IF ok /\ data.type # "null" /\ data.hasResults
             THEN Arr(data.results) ELSE Arr(<<>>)]

\* variant: the accessors let a failure through
AccessorOutcomePropagates(acc, ok, data) ==
  [state |-> IF ok THEN "resolved" ELSE "rejected",
   value |-> IF ok THEN data ELSE NoData]

\* How an accessor settles once its makeRequest has: ok is whether makeRequest
\* returned, data what it returned.  Every accessor catches a failure and
\* returns []; fetchRandomUsers returns response.results || [] (and reading
\* .results of null throws inside its try).  A direct makeRequest call has no
\* accessor around it: its outcome is makeRequest's own.
AccessorOutcome(acc, ok, data) ==
  CASE acc = "makeRequest" ->
         [state |-> IF ok THEN "resolved" ELSE "rejected",
          value |-> IF ok THEN data ELSE NoData]
    [] acc = "fetchRandomUsers" ->
         [state |-> "resolved",
          value |-> IF ok /\ data.type # "null" /\ data.hasResults
                    THEN Arr(data.results) ELSE Arr(<<>>)]
    [] OTHER ->
         [state |-> "resolved", value |-> IF ok THEN data ELSE Arr(<<>>)]

\* ---------------------------------------------------------------------
\* GameStoreManager (src/script.js): strings and local storage
\* ---------------------------------------------------------------------

\* a string is the sequence of its characters
Digits == <<"0", "1", "2", "3", "4", "5", "6", "7", "8", "9">>

IsDigit(ch) == \E d \in 1..10 : Digits[d] = ch

DigitValue(ch) == (CHOOSE d \in 1..10 : Digits[d] = ch) - 1

IsSpace(ch) == ch = " "

RECURSIVE NatToString(_)
NatToString(n) ==
  IF n < 10 THEN <<Digits[n + 1]>>
  ELSE NatToString(n \div 10) \o <<Digits[(n % 10) + 1]>>

\* this.cartCounter.toString()
NumberToString(n) ==
  IF n < 0 THEN <<"-">> \o NatToString(-n) ELSE NatToString(n)

RECURSIVE TrimStart(_)
TrimStart(s) ==
  IF s # <<>> /\ IsSpace(Head(s)) THEN TrimStart(Tail(s)) ELSE s

RECURSIVE TrimEnd(_)
TrimEnd(s) ==
  IF s # <<>> /\ IsSpace(s[Len(s)])
  THEN TrimEnd(SubSeq(s, 1, Len(s) - 1)) ELSE s

\* String.prototype.trim
Trim(s) == TrimEnd(TrimStart(s))

\* the longest prefix of s made of digits
RECURSIVE DigitsPrefix(_)
DigitsPrefix(s) ==
  IF s # <<>> /\ IsDigit(Head(s))
  THEN <<Head(s)>> \o DigitsPrefix(Tail(s)) ELSE <<>>

RECURSIVE DigitsValue(_, _)
DigitsValue(s, acc) ==
  IF s = <<>> THEN acc
  ELSE DigitsValue(Tail(s), 10 * acc + DigitValue(Head(s)))

NaN == [nan |-> TRUE, value |-> 0]

\* variant: the text is read up to its first digit only
ParseIntOneDigit(str) ==
  IF str # <<>> /\ IsDigit(Head(str))
  THEN [nan |-> FALSE, value |-> DigitValue(Head(str))]
  ELSE NaN

\* parseInt(str, 10): leading white space, a sign, then the digits up to
\* the first character that is not one; NaN without a digit
ParseInt(str) ==
  LET s      == TrimStart(str)
      signed == s # <<>> /\ Head(s) \in {"-", "+"}
      body   == IF signed THEN Tail(s) ELSE s
      ds     == DigitsPrefix(body)
      n      == DigitsValue(ds, 0)
  IN IF ds = <<>> THEN NaN
     ELSE [nan |-> FALSE,
           value |-> IF signed /\ Head(s) = "-" THEN -n ELSE n]

\* num || 0
OrZero(num) == IF num.nan THEN 0 ELSE num.value

\* localStorage.getItem of a key never set: null
Absent == [present |-> FALSE, value |-> <<>>]

Item(s) == [present |-> TRUE, value |-> s]

\* if (savedCount): null and the empty string are falsy
Truthy(item) == item.present /\ item.value # <<>>

Dark == <<"d", "a", "r", "k">>

Light == <<"l", "i", "g", "h", "t">>

\* variant: the theme is written in capitals
ThemeStringUpper(isDarkMode) ==
  IF isDarkMode THEN <<"D", "A", "R", "K">> ELSE <<"L", "I", "G", "H", "T">>

\* this.isDarkMode ? 'dark' : 'light'
ThemeString(isDarkMode) == IF isDarkMode THEN Dark ELSE Light

\* what gamestore_cart_count and gamestore_theme may hold when a page loads
StoredCounts ==
  {Absent, Item(<<>>), Item(<<"9">>), Item(<<"-", "5">>),
   Item(<<"a", "b", "c">>), Item(<<"3", ".", "7">>)}

StoredThemes == {Absent, Item(Dark), Item(Light), Item(<<"D", "A", "R", "K">>)}

\* the last event of the store: its kind, the answer to the confirm dialog,
\* and whether localStorage worked while it was handled
NoEvent == [kind |-> "none", answer |-> FALSE, works |-> TRUE]

\* the store before the page loads: the storage, the instance (cartCounter,
\* isDarkMode), the page (applied theme, text of #numero-carrinho), the
\* legacy counter, and the counters at the start of the current run of
\* purchase clicks with the number of confirmed clicks since
NoShop ==
  [loaded |-> FALSE,
   storage |-> [cart |-> Absent, theme |-> Absent],
   cartCounter |-> 0, isDarkMode |-> FALSE,
   applied |-> "light", display |-> <<"0">>,
   contadorCarrinho |-> 0,
   start |-> [cartCounter |-> 0, contadorCarrinho |-> 0],
   confirmed |-> 0, clicks |-> 0,
   ev |-> NoEvent]

\* try { localStorage.setItem('gamestore_cart_count', ...) } catch { warn }
saveCartToStorage(sh, works) ==
  IF works
  THEN [sh EXCEPT !.storage.cart = Item(NumberToString(sh.cartCounter))]
  ELSE sh

\* this.elements.cartNumber.textContent = this.cartCounter
updateCartDisplay(sh) == [sh EXCEPT !.display = NumberToString(sh.cartCounter)]

\* this.cartCounter++; updateCartDisplay(); saveCartToStorage()
addToCart(sh, works) ==
  saveCartToStorage(
    updateCartDisplay([sh EXCEPT !.cartCounter = @ + 1]), works)

\* variant: the legacy click does not take its increment back
LegacyClickKeeps(n, answer) == n + 1

\* contadorCarrinho++ before confirm(), contadorCarrinho-- when cancelled
LegacyClick(n, answer) == IF answer THEN n + 1 ELSE (n + 1) - 1

\* try { savedCount = getItem(...); if (savedCount) { cartCounter =
\* parseInt(savedCount, 10) || 0; updateCartDisplay() } } catch { warn }
loadCartFromStorage(sh, works) ==
  IF works /\ Truthy(sh.storage.cart)
  THEN updateCartDisplay(
         [sh EXCEPT !.cartCounter = OrZero(ParseInt(sh.storage.cart.value))])
  ELSE sh

\* applyTheme()
applyTheme(sh) ==
  [sh EXCEPT !.applied = IF sh.isDarkMode THEN "dark" ELSE "light"]

\* try { setItem('gamestore_theme', ...) } catch { warn }
saveThemePreference(sh, works) ==
  IF works
  THEN [sh EXCEPT !.storage.theme = Item(ThemeString(sh.isDarkMode))]
  ELSE sh

\* isDarkMode = !isDarkMode; applyTheme(); saveThemePreference()
toggleTheme(sh, works) ==
  saveThemePreference(applyTheme([sh EXCEPT !.isDarkMode = ~@]), works)

\* try { if (getItem('gamestore_theme') === 'dark') { isDarkMode = true;
\* applyTheme() } } catch { warn }
loadThemePreference(sh, works) ==
  IF works /\ sh.storage.theme = Item(Dark)
  THEN applyTheme([sh EXCEPT !.isDarkMode = TRUE])
  ELSE sh

\* try { removeItem(cart); removeItem(theme); cartCounter = 0;
\* updateCartDisplay(); notify } catch { notify the error }
clearAllData(sh, works) ==
  IF works
  THEN updateCartDisplay(
         [sh EXCEPT !.storage = [cart |-> Absent, theme |-> Absent],
                    !.cartCounter = 0])
  ELSE sh

\* the steps of setupApplication, in the order of its try block
SetupSteps ==
  <<"cacheElements", "setupDateTime", "setupShoppingCart", "setupThemeToggle",
    "setupSearchFunctionality", "setupProductDetails", "setupContactForm",
    "addCustomStyles">>

\* the step that throws in a call of setupApplication (0: none does)
FailAts == 0..Len(SetupSteps)

\* no instance yet: ran counts the completed executions of each step,
\* completed those of the whole body, calls the calls of setupApplication
NoSetup ==
  [constructed |-> FALSE, isInitialized |-> FALSE, listening |-> FALSE,
   ran |-> [i \in 1..Len(SetupSteps) |-> 0],
   completed |-> 0, calls |-> 0,
   ev |-> [kind |-> "none", failAt |-> 0]]

\* the body of setupApplication: the steps before the one that throws run,
\* the catch block logs, and isInitialized is set after the last step
RunSetup(su, failAt) ==
  [su EXCEPT
     !.ran = [i \in DOMAIN @ |->
                IF failAt = 0 \/ i < failAt THEN @[i] + 1 ELSE @[i]],
     !.isInitialized = (failAt = 0),
     !.completed = IF failAt = 0 THEN @ + 1 ELSE @]

\* variant: without the isInitialized guard
setupApplicationUnguarded(su, failAt) == RunSetup(su, failAt)

\* if (this.isInitialized) return; try { ... } catch { console.error }
setupApplication(su, failAt) ==
  IF su.isInitialized THEN su ELSE RunSetup(su, failAt)

\* the letters toLowerCase changes, and what it changes them to
UpperCase ==
  <<"A", "B", "C", "D", "E", "F", "G", "H", "I", "J", "K", "L", "M",
    "N", "O", "P", "Q", "R", "S", "T", "U", "V", "W", "X", "Y", "Z">>

LowerCase ==
  <<"a", "b", "c", "d", "e", "f", "g", "h", "i", "j", "k", "l", "m",
    "n", "o", "p", "q", "r", "s", "t", "u", "v", "w", "x", "y", "z">>

ToLowerChar(ch) ==
  IF \E i \in 1..Len(UpperCase) : UpperCase[i] = ch
  THEN LowerCase[CHOOSE i \in 1..Len(UpperCase) : UpperCase[i] = ch]
  ELSE ch

\* String.prototype.toLowerCase
ToLowerCase(s) == [i \in 1..Len(s) |-> ToLowerChar(s[i])]

\* String.prototype.includes
Includes(hay, needle) ==
  \E i \in 0..(Len(hay) - Len(needle)) :
     SubSeq(hay, i + 1, i + Len(needle)) = needle

\* const gamesList = [...]
gamesList ==
  <<<<"F", "I", "F", "A", " ", "2", "4">>,
    <<"C", "a", "l", "l", " ", "o", "f", " ", "D", "u", "t", "y">>,
    <<"M", "i", "n", "e", "c", "r", "a", "f", "t">>,
    <<"G", "T", "A", " ", "V">>,
    <<"F", "o", "r", "t", "n", "i", "t", "e">>,
    <<"C", "y", "b", "e", "r", "p", "u", "n", "k", " ", "2", "0", "7", "7">>,
    <<"T", "h", "e", " ", "W", "i", "t", "c", "h", "e", "r", " ", "3">>,
    <<"R", "e", "d", " ", "D", "e", "a", "d", " ", "R", "e", "d", "e", "m", "p", "t", "i", "o", "n", " ", "2">>,
    <<"A", "s", "s", "a", "s", "s", "i", "n", "'", "s", " ", "C", "r", "e", "e", "d">>>>

\* games.filter(game => game.toLowerCase().includes(term.toLowerCase()))
filterGames(games, term) ==
  LET matches(game) == Includes(ToLowerCase(game), ToLowerCase(term))
  IN SelectSeq(games, matches)

\* showNotification(message, type): the type and what the message is about
Notification(type, about) == [type |-> type, about |-> about]

\* performSearch(searchTerm): validateSearchTerm looks at the trimmed term
\* and warns; filterGames and displaySearchResults get the term as typed
performSearch(searchTerm) ==
  LET trimmedTerm == Trim(searchTerm)
      results     == filterGames(gamesList, searchTerm)
      said(n)     == [ev |-> "search", term |-> searchTerm,
                      notifications |-> <<n>>,
                      searched |-> FALSE, results |-> <<>>]
  IN IF trimmedTerm = <<>>
     THEN said(Notification("warning", "empty"))
     ELSE IF Len(trimmedTerm) < 3
     THEN said(Notification("warning", "short"))
     ELSE [said(Notification(IF Len(results) > 0 THEN "success" ELSE "info",
                             "results"))
           EXCEPT !.searched = TRUE, !.results = results]

\* no search yet: the term, the notifications shown, whether filterGames
\* ran and the games displaySearchResults reported
NoSearch ==
  [ev |-> "none", term |-> <<>>, notifications |-> <<>>,
   searched |-> FALSE, results |-> <<>>]

\* the contact form as the page shows it: empty fields, the submit button
\* enabled with its label, no delay pending; notifications and started are
\* those of the last event
NoForm ==
  [ev |-> "none",
   fields |-> [name |-> <<>>, email |-> <<>>, message |-> <<>>],
   button |-> [textContent |-> "Enviar", disabled |-> FALSE],
   timers |-> <<>>,
   notifications |-> <<>>, started |-> FALSE]

\* document.getElementById(id)?.value.trim() || ''
extractFormData(fields) ==
  [name |-> Trim(fields.name), email |-> Trim(fields.email),
   message |-> Trim(fields.message)]

\* [^\s@]
NoSpaceNoAt(ch) == ~IsSpace(ch) /\ ch # "@"

\* variant: anything with an @ in it passes
isValidEmailLoose(email) == \E a \in 1..Len(email) : email[a] = "@"

\* /^[^\s@]+@[^\s@]+\.[^\s@]+$/.test(email): an @ at a and a dot at d
\* split the text in three non-empty runs without white space or @
isValidEmail(email) ==
  \E a \in 1..Len(email), d \in 1..Len(email) :
     /\ email[a] = "@" /\ email[d] = "."
     /\ 1 < a /\ a + 1 < d /\ d < Len(email)
     /\ \A i \in 1..Len(email) : i = a \/ NoSpaceNoAt(email[i])

\* validateFormData: the notifications it shows (none when the data pass)
validateFormData(data) ==
  IF data.name = <<>>
  THEN <<Notification("error", "name")>>
  ELSE IF ~isValidEmail(data.email)
  THEN <<Notification("error", "email")>>
  ELSE IF Len(data.message) < 10
  THEN <<Notification("error", "message")>>
  ELSE <<>>

\* simulateFormSubmission up to setTimeout: the callback keeps the label the
\* button had when this call read it
simulateFormSubmission(fm) ==
  [fm EXCEPT !.timers = Append(@, [originalText |-> fm.button.textContent]),
             !.button = [textContent |-> "Enviando...", disabled |-> TRUE],
             !.started = TRUE]

\* event.preventDefault(); extract; if valid, simulate the submission
handleContactFormSubmit(fm) ==
  LET shown == validateFormData(extractFormData(fm.fields))
      said  == [fm EXCEPT !.ev = "submit", !.notifications = shown,
                          !.started = FALSE]
  IN IF shown = <<>> THEN simulateFormSubmission(said) ELSE said

\* what the fields of the form may hold
Names == {<<>>, <<" ">>, <<" ", "A", "n", "a">>}

Emails ==
  {<<>>, <<"a", "@", "b", ".", "c">>, <<" ", "a", "@", "b", ".", "c", " ">>, <<"a", "@", "b">>, <<"a", "@", "@", "b", ".", "c">>,
   <<"a", "@", ".", "c">>, <<"a", "@", "b", ".">>, <<"@", "b", ".", "c">>,
   <<"a", " ", "b", "@", "c", ".", "d">>, <<"a", "@", "b", ".", ".", "c">>}

Messages ==
  {<<>>, <<"1", "2", "3", "4", "5", "6", "7", "8", "9">>, <<"1", "2", "3", "4", "5", "6", "7", "8", "9", "0">>,
   <<" ", "1", "2", "3", "4", "5", "6", "7", "8", "9", " ">>}

\* the counters from which the next run of purchase clicks starts
Restart(sh) ==
  [sh EXCEPT !.start = [cartCounter |-> sh.cartCounter,
                        contadorCarrinho |-> sh.contadorCarrinho],
             !.confirmed = 0]

(* ------------------------------ state --------------------------------- *)
VARIABLES
  now,     \* Date.now()
  ticks,   \* clock advances so far
  cache,   \* ApiManager.cache: fingerprint -> {data, timestamp}
  calls,   \* the activations of makeRequest, by id, and their timers
  out,     \* what the last step did, as a caller or the network sees it
  stored,  \* the entry the latest successful call wrote, and under which key
  cleared, \* what the last clearCache removed, and which calls came since
  page,    \* the page: its sections, indicators and loadHomepageData's promise
  shop,    \* the store: local storage, cart counters and theme
  setup,   \* the GameStoreManager instance and its setupApplication calls
  search,  \* the last performSearch and what it reported
  form     \* the contact form: fields, submit button and pending delays

vars ==
  <<now, ticks, cache, calls, out, stored, cleared, page,
    shop, setup, search, form>>

\* An activation of makeRequest: where it stands (pc), who called it, its
\* cacheKey, when it issued its request, how many requests it issued, its
\* timer (none, pending, cleared, fired), whether response.json() was called,
\* and whether it found an (expired) entry when it started.
IdleCall ==
  [pc |-> "idle", acc |-> "none", key |-> <<>>, startedAt |-> 0, net |-> 0,
   timer |-> "none", bodyRead |-> FALSE, found |-> "none"]

\* an activation that has settled and left no timer behind
DoneCall == [IdleCall EXCEPT !.pc = "done"]

\* The outcome of a step.  kind: none (no call moved), issued (a call sent
\* its request), received (a call got an ok response and reads its body),
\* returned, failed.  at: the step of the call that produced it (start,
\* response, body, timer).  age: the age of the entry the call found when it
\* started (-1: none).  elapsed: the time since the call issued its request.
\* wrote: whether the step changed the cache.  replaced: the age of the entry
\* the step's cache.set wrote over (-1: none).
NoOut ==
  [kind |-> "none", at |-> "none", call |-> 0, acc |-> "none", key |-> <<>>,
   net |-> 0, timer |-> "none", bodyRead |-> FALSE, found |-> "none",
   age |-> -1, elapsed |-> 0, status |-> 0, wrote |-> FALSE, replaced |-> -1,
   result |-> NoData, error |-> NoError, cause |-> "none",
   accState |-> "none", accValue |-> NoData]

\* nothing stored yet
NoStore == [key |-> <<>>, data |-> NoData, timestamp |-> 0, net |-> 0]

\* no clearCache yet.  keys: the fingerprints a clearCache removed and no
\* call has asked for since; busy: those of them that had a request in
\* flight when clearCache last ran; first: whether the last step started the
\* first call since clearCache for a fingerprint of keys ("no"), and if so
\* whether that fingerprint was one of busy ("busy") or not ("quiet").
NoClear == [keys |-> {}, busy |-> {}, first |-> "no"]

\* a section of the home page whose load has not started
NoSection == [show |-> "idle", items |-> <<>>]

\* the page before DOMContentLoaded (products and users are the sections of
\* the home page, catalog the one of the products page; indicator is the
\* display of each section's loading element): show is what a section displays
\* (idle, loading: its loading indicator, items: the rendered items, empty:
\* the "Nenhum ..." message, error: the "Erro ao carregar ..." message)
NoPage ==
  [home |-> "idle", products |-> NoSection, users |-> NoSection,
   catalog |-> NoSection,
   indicator |-> [products |-> "none", users |-> "none", catalog |-> "none"]]

Init ==
  /\ now = 0
  /\ ticks = 0
  /\ cache = EmptyCache
  /\ calls = [c \in CallIds |-> IdleCall]
  /\ out = NoOut
  /\ stored = NoStore
  /\ cleared = NoClear
  /\ page = NoPage
  /\ shop = NoShop
  /\ setup = NoSetup
  /\ search = NoSearch
  /\ form = NoForm

InFlight(c) == calls[c].pc \in {"fetching", "parsing"}

\* when the call's timer is due: this.requestTimeout after setTimeout ran
Deadline(cl) == cl.startedAt + requestTimeout

(* ------------------------- what a step leaves ------------------------- *)
\* the record of clearCache after a step whose outcome is o, taken on the
\* cache cch and the frames cls the step started from
ClearedAfter(cl, cch, cls, o) ==
  IF o.kind = "cleared"
  THEN [keys  |-> cl.keys \cup DOMAIN cch,
        busy  |-> {k \in cl.keys \cup DOMAIN cch :
                     \E c \in DOMAIN cls :
                        cls[c].pc \in {"fetching", "parsing"} /\ cls[c].key = k},
        first |-> "no"]
  ELSE IF o.at = "start"
  THEN [keys  |-> cl.keys \ {o.key},
        busy  |-> cl.busy \ {o.key},
        first |-> IF o.key \notin cl.keys THEN "no"
                  ELSE IF o.key \in cl.busy THEN "busy" ELSE "quiet"]
  ELSE [cl EXCEPT !.first = "no"]

\* The body of loadFeaturedProducts / loadOnlineUsers after its await: the
\* accessor settled as state with value.  products.length > 0 renders the
\* items; a list without items (or a value without a length) shows the
\* "Nenhum ..." message; a rejection, or reading .length of null, lands in
\* the catch block, which shows the "Erro ao carregar ..." message, and so
\* does an item the renderer throws on (the items appended before it are
\* replaced by the message).
LoadOutcome(state, value) ==
  CASE state # "resolved" \/ value.type = "null" ->
         [show |-> "error", items |-> <<>>]
    [] value.type = "array" /\ Len(value.items) > 0 ->
         IF \E i \in 1..Len(value.items) : value.items[i] = Broken
         THEN [show |-> "error", items |-> <<>>]
         ELSE [show |-> "items", items |-> value.items]
    [] OTHER ->
         [show |-> "empty", items |-> <<>>]

\* variant: the indicator is hidden at the end of the try block only
IndicatorAfterTry(content) ==
  IF content.show = "error" THEN "block" ELSE "none"

\* finally { if (loadingElement) loadingElement.style.display = 'none' }
IndicatorAfter(content) == "none"

\* variant: Promise.race, the promise settles with the first load
AllSettledRace(p, u) == p.show # "loading" \/ u.show # "loading"

\* Promise.allSettled(loadingPromises): every load has settled
AllSettled(p, u) == p.show # "loading" /\ u.show # "loading"

\* the section an accessor is called for
SectionOf(acc) ==
  CASE acc = "fetchProducts"    -> "products"
    [] acc = "fetchRandomUsers" -> "users"
    [] acc = "fetchAllProducts" -> "catalog"
    [] OTHER                    -> "none"

\* the page after a step whose outcome is o: the load whose accessor settled
\* fills its section and hides its indicator, and loadHomepageData resolves
\* once both of its loads have
PageAfter(pg, o) ==
  LET sec == SectionOf(o.acc)
  IN IF o.kind \notin {"returned", "failed"} \/ sec = "none"
     THEN pg
     ELSE IF pg[sec].show # "loading"
     THEN pg
     ELSE LET content == LoadOutcome(o.accState, o.accValue)
              filled  == [pg EXCEPT ![sec] = content,
                                    !.indicator[sec] = IndicatorAfter(content)]
          IN [filled EXCEPT
                !.home = IF pg.home = "pending"
                            /\ AllSettled(filled.products, filled.users)
                         THEN "resolved" ELSE pg.home]

\* what every step leaves behind besides its own effect
Effects ==
  /\ cleared' = ClearedAfter(cleared, cache, calls, out')
  /\ page' = PageAfter(page, out')
  /\ UNCHANGED <<shop, setup, search, form>>

(* --------------------------- makeRequest ------------------------------ *)
\* the outcome record of activation c, whose frame is cl, at this moment
OutOf(c, cl, kind, at) ==
  [NoOut EXCEPT !.kind = kind, !.at = at, !.call = c, !.acc = cl.acc,
                !.key = cl.key, !.net = cl.net, !.timer = cl.timer,
                !.bodyRead = cl.bodyRead, !.found = cl.found,
                !.elapsed = IF cl.net > 0 THEN now - cl.startedAt ELSE 0,
                !.wrote = (cache' # cache)]

\* return data: the call's promise fulfils, and the accessor around it
\* settles from that
Returned(c, cl, at, data) ==
  [OutOf(c, cl, "returned", at) EXCEPT
     !.result = data,
     !.accState = AccessorOutcome(cl.acc, TRUE, data).state,
     !.accValue = AccessorOutcome(cl.acc, TRUE, data).value]

\* catch (error) { throw new Error(`Falha ao carregar dados: ...`) }: the
\* call's promise rejects, and the accessor around it settles from that
Failed(c, cl, at, e, cause) ==
  [OutOf(c, cl, "failed", at) EXCEPT
     !.error = WrapError(e), !.cause = cause,
     !.accState = AccessorOutcome(cl.acc, FALSE, NoData).state,
     !.accValue = AccessorOutcome(cl.acc, FALSE, NoData).value]

\* the frame of a call that has settled: it is gone, unless its timer is
\* still pending
After(cl) ==
  IF cl.timer = "pending"
  THEN [DoneCall EXCEPT !.pc = "settled", !.timer = "pending",
                        !.startedAt = cl.startedAt]
  ELSE DoneCall

\* variant: a call joins the request another call has in flight for the same
\* fingerprint instead of issuing its own
IssueCoalesced(cl) ==
  [cl EXCEPT !.pc = "fetching",
             !.net = IF \E d \in DOMAIN calls :
                          calls[d].pc \in {"fetching", "parsing"}
                          /\ calls[d].key = cl.key
                     THEN cl.net ELSE cl.net + 1,
             !.timer = "pending", !.startedAt = now]

\* setTimeout(() => controller.abort(), this.requestTimeout); fetch(url, ...)
Issue(cl) ==
  [cl EXCEPT !.pc = "fetching", !.net = cl.net + 1, !.timer = "pending",
             !.startedAt = now]

\* A caller invokes makeRequest(url, options), directly or through an
\* accessor.  The call runs to its first await: a fresh cache entry is
\* returned at once, otherwise the timer is started and the request issued.
StartCall(c, inv) ==
  LET key   == CacheKey(inv.url, inv.options)
      age   == IF key \in DOMAIN cache THEN now - cache[key].timestamp ELSE -1
      frame == [calls[c] EXCEPT
                  !.acc = inv.acc, !.key = key,
                  !.found = IF key \in DOMAIN cache THEN "present" ELSE "absent"]
  IN /\ calls[c].pc = "idle"
     /\ IF c = 1 THEN TRUE ELSE calls[c - 1].pc # "idle"
     /\ cache' = cache
     /\ IF CacheHas(cache, key) /\ IsFresh(cache[key], now)
        THEN /\ calls' = [calls EXCEPT ![c] = After(frame)]
             /\ out' = [Returned(c, frame, "start", cache[key].data)
                          EXCEPT !.age = age]
        ELSE /\ calls' = [calls EXCEPT ![c] = Issue(frame)]
             /\ out' = [OutOf(c, Issue(frame), "issued", "start")
                          EXCEPT !.age = age]
     /\ UNCHANGED <<now, ticks, stored>>
     /\ Effects

\* fetch() resolves with a response of the given status: the timer is
\* cleared; a non-ok status throws into the catch block, an ok one goes on
\* to response.json().
FetchResolves(c, status) ==
  /\ calls[c].pc = "fetching"
  /\ LET got  == [calls[c] EXCEPT !.timer = "cleared"]
         read == [got EXCEPT !.pc = "parsing", !.bodyRead = TRUE]
     IN IF ~ResponseOk(status)
        THEN /\ cache' = CatchCache(cache, got.key)
             /\ calls' = [calls EXCEPT ![c] = After(got)]
             /\ out' = [Failed(c, got, "response", HttpError(status), "http")
                          EXCEPT !.status = status]
        ELSE /\ cache' = cache
             /\ calls' = [calls EXCEPT ![c] = read]
             /\ out' = [OutOf(c, read, "received", "response")
                          EXCEPT !.status = status]
  /\ UNCHANGED <<now, ticks, stored>>
  /\ Effects

\* variant: a transport failure is retried once before it is surfaced
FetchRejectsRetries(c) ==
  /\ calls[c].pc = "fetching"
  /\ cache' = cache
  /\ IF calls[c].net < 2
     THEN /\ calls' = [calls EXCEPT ![c] = [calls[c] EXCEPT !.net = calls[c].net + 1]]
          /\ out' = OutOf(c, calls'[c], "issued", "response")
     ELSE /\ calls' = [calls EXCEPT ![c] = After(calls[c])]
          /\ out' = Failed(c, calls[c], "response", NetworkError, "network")
  /\ UNCHANGED <<now, ticks, stored>>
  /\ Effects

\* fetch() rejects on a transport failure: control goes straight to the
\* catch block (clearTimeout is not reached).
FetchRejects(c) ==
  /\ calls[c].pc = "fetching"
  /\ cache' = CatchCache(cache, calls[c].key)
  /\ calls' = [calls EXCEPT ![c] = After(calls[c])]
  /\ out' = Failed(c, calls[c], "response", NetworkError, "network")
  /\ UNCHANGED <<now, ticks, stored>>
  /\ Effects

\* variant: one controller is shared, the abort reaches every pending fetch
TimerFiresAbortsAll(c) ==
  /\ calls[c].timer = "pending"
  /\ now >= Deadline(calls[c])
  /\ cache' = cache
  /\ calls' = [d \in DOMAIN calls |->
                 IF d = c \/ calls[d].pc = "fetching"
                 THEN After([calls[d] EXCEPT !.timer = "fired"])
                 ELSE calls[d]]
  /\ out' = IF calls[c].pc = "fetching"
            THEN Failed(c, [calls[c] EXCEPT !.timer = "fired"], "timer",
                        AbortError, "timeout")
            ELSE NoOut
  /\ UNCHANGED <<now, ticks, stored>>
  /\ Effects

\* The timer callback runs: controller.abort().  A fetch still pending
\* rejects with an AbortError; on a finished call the abort has no effect.
TimerFires(c) ==
  /\ calls[c].timer = "pending"
  /\ now >= Deadline(calls[c])
  /\ LET fired == [calls[c] EXCEPT !.timer = "fired"]
     IN /\ cache' = IF calls[c].pc = "fetching"
                    THEN CatchCache(cache, calls[c].key) ELSE cache
        /\ calls' = [calls EXCEPT ![c] = After(fired)]
        /\ out' = IF calls[c].pc = "fetching"
                  THEN Failed(c, fired, "timer", AbortError, "timeout")
                  ELSE NoOut
  /\ UNCHANGED <<now, ticks, stored>>
  /\ Effects

\* response.json() resolves with the parsed body: store it and return it.
BodyParsed(c, data) ==
  /\ calls[c].pc = "parsing"
  /\ cache' = CacheSet(cache, calls[c].key, data, now)
  /\ stored' = [key |-> calls[c].key, data |-> data, timestamp |-> now,
                net |-> calls[c].net]
  /\ calls' = [calls EXCEPT ![c] = After(calls[c])]
  /\ out' = [Returned(c, calls[c], "body", data) EXCEPT
                !.replaced = IF CacheHas(cache, calls[c].key)
                             THEN now - cache[calls[c].key].timestamp ELSE -1]
  /\ UNCHANGED <<now, ticks>>
  /\ Effects

\* response.json() rejects: the body is not JSON, or its transfer failed.
BodyFails(c, e) ==
  /\ calls[c].pc = "parsing"
  /\ cache' = CatchCache(cache, calls[c].key)
  /\ calls' = [calls EXCEPT ![c] = After(calls[c])]
  /\ out' = Failed(c, calls[c], "body", e,
                   IF e = SyntaxError THEN "malformed" ELSE "network")
  /\ UNCHANGED <<now, ticks, stored>>
  /\ Effects

(* --------------------------- DataLoader ------------------------------- *)
\* variant: clearCache only logs
clearCacheKeeps ==
  /\ cache' = cache
  /\ out' = [NoOut EXCEPT !.kind = "cleared"]
  /\ UNCHANGED <<now, ticks, calls, stored>>
  /\ Effects

\* this.apiManager.fetchProducts(6)
HomeProducts == CHOOSE inv \in AccessorCalls : inv.acc = "fetchProducts"
\* this.apiManager.fetchRandomUsers(6)
HomeUsers == CHOOSE inv \in AccessorCalls : inv.acc = "fetchRandomUsers"

\* a section whose loading indicator is displayed
Loading == [show |-> "loading", items |-> <<>>]

\* dataLoader.initializePageData() on DOMContentLoaded of the home page:
\* loadHomepageData starts loadFeaturedProducts and loadOnlineUsers one after
\* the other, each running up to the await of its request (both containers
\* exist on the home page), and awaits Promise.allSettled of the two.  It is
\* the first use of the gateway, so the cache is empty and both calls issue
\* their request.
loadHomepageData ==
  /\ page = NoPage
  /\ \A c \in DOMAIN calls : calls[c].pc = "idle"
  /\ LET frame(inv) ==
           [IdleCall EXCEPT !.acc = inv.acc,
                            !.key = CacheKey(inv.url, inv.options),
                            !.found = "absent"]
     IN calls' = [calls EXCEPT ![1] = Issue(frame(HomeProducts)),
                               ![2] = Issue(frame(HomeUsers))]
  /\ cache' = cache
  /\ out' = [NoOut EXCEPT !.kind = "loading"]
  /\ page' = [page EXCEPT !.home = "pending",
                           !.products = Loading, !.users = Loading,
                           !.indicator.products = "block",
                           !.indicator.users = "block"]
  /\ cleared' = ClearedAfter(cleared, cache, calls, out')
  /\ UNCHANGED <<now, ticks, stored, shop, setup, search, form>>

\* this.apiManager.fetchAllProducts()
PageCatalog == CHOOSE inv \in AccessorCalls : inv.acc = "fetchAllProducts"

\* dataLoader.initializePageData() on DOMContentLoaded of the products page:
\* loadProductsPageData awaits loadAllProducts, which shows its indicator
\* and runs up to the await of its request (the container exists).
loadProductsPageData ==
  /\ page = NoPage
  /\ \A c \in DOMAIN calls : calls[c].pc = "idle"
  /\ calls' = [calls EXCEPT
                 ![1] = Issue([IdleCall EXCEPT
                                 !.acc = PageCatalog.acc,
                                 !.key = CacheKey(PageCatalog.url, PageCatalog.options),
                                 !.found = "absent"])]
  /\ cache' = cache
  /\ out' = [NoOut EXCEPT !.kind = "loading"]
  /\ page' = [page EXCEPT !.catalog = Loading, !.indicator.catalog = "block"]
  /\ cleared' = ClearedAfter(cleared, cache, calls, out')
  /\ UNCHANGED <<now, ticks, stored, shop, setup, search, form>>

\* this.apiManager.cache.clear()
clearCache ==
  /\ cache' = EmptyCache
  /\ out' = [NoOut EXCEPT !.kind = "cleared"]
  /\ UNCHANGED <<now, ticks, calls, stored>>
  /\ Effects

(* --------------------------- the constructor -------------------------- *)
\* ApiManager.instance: set by the first construction, which is the one of
\* the module's dataLoader; Init is the state it leaves
HasInstance == TRUE

\* variant: every construction makes its own cache
ConstructedCacheOwn(inst, cch) == EmptyCache

\* if (ApiManager.instance) return ApiManager.instance; otherwise
\* this.cache = new Map(): the cache of the object that new ApiManager()
\* evaluates to
ConstructedCache(inst, cch) == IF inst THEN cch ELSE EmptyCache

\* new ApiManager(), as the constructor of DataLoader runs it
NewApiManager ==
  /\ cache' = ConstructedCache(HasInstance, cache)
  /\ out' = [NoOut EXCEPT !.kind = "constructed", !.wrote = (cache' # cache)]
  /\ UNCHANGED <<now, ticks, calls, stored>>
  /\ Effects

(* ------------------------------ the clock ----------------------------- *)
\* Time passes.  Timers are punctual: the clock does not move past the
\* deadline of a pending timer before that timer's callback has run (at the
\* deadline itself the callback and a response may run in either order).
Tick(d) ==
  /\ ticks < MaxTicks
  /\ \A c \in DOMAIN calls :
        calls[c].timer = "pending" => now + d <= Deadline(calls[c])
  /\ now' = now + d
  /\ ticks' = ticks + 1
  /\ out' = NoOut
  /\ UNCHANGED <<cache, calls, stored>>
  /\ Effects

\* one step of the program, the callers drawing their calls from invs and
\* the servers their bodies from bodies
Step(invs, bodies) ==
  \/ \E c \in DOMAIN calls, inv \in invs : StartCall(c, inv)
  \/ \E c \in DOMAIN calls, status \in Statuses : FetchResolves(c, status)
  \/ \E c \in DOMAIN calls : FetchRejects(c)
  \/ \E c \in DOMAIN calls : TimerFires(c)
  \/ \E c \in DOMAIN calls, data \in bodies : BodyParsed(c, data)
  \/ \E c \in DOMAIN calls, e \in {SyntaxError, NetworkError} : BodyFails(c, e)
  \/ clearCache
  \/ \E d \in Steps : Tick(d)

\* the gateway, called directly
Next == Step(DirectCalls, NonNullValues)

Spec == Init /\ [][Next]_vars

\* the gateway, called through the five accessors
NextAccessors == Step(AccessorCalls, JsonValues)

SpecAccessors == Init /\ [][NextAccessors]_vars

\* makeRequest(url) called for one fingerprint only
OneKeyCalls ==
  {[acc |-> "makeRequest", url |-> <<baseUrls.products>>, options |-> "default"]}

InitOneKey ==
  /\ now = 0
  /\ ticks = 0
  /\ cache = EmptyCache
  /\ calls = [c \in 1..MaxKeyCalls |-> IdleCall]
  /\ out = NoOut
  /\ stored = NoStore
  /\ cleared = NoClear
  /\ page = NoPage
  /\ shop = NoShop
  /\ setup = NoSetup
  /\ search = NoSearch
  /\ form = NoForm

\* the gateway, called for one fingerprint, and further constructions
NextOneKey == Step(OneKeyCalls, NonNullValues) \/ NewApiManager

SpecOneKey == InitOneKey /\ [][NextOneKey]_vars

\* the page (home or products): its load, and what the network and the
\* clock do to it
NextHome ==
  \/ loadHomepageData
  \/ loadProductsPageData
  \/ \E c \in DOMAIN calls, status \in Statuses : FetchResolves(c, status)
  \/ \E c \in DOMAIN calls : FetchRejects(c)
  \/ \E c \in DOMAIN calls : TimerFires(c)
  \/ \E c \in DOMAIN calls, data \in PageValues : BodyParsed(c, data)
  \/ \E c \in DOMAIN calls, e \in {SyntaxError, NetworkError} : BodyFails(c, e)
  \/ clearCache
  \/ \E d \in Steps : Tick(d)

SpecHome == Init /\ [][NextHome]_vars

\* ---------------------------------------------------------------------
\* GameStoreManager: cart, theme and stored preferences
\* ---------------------------------------------------------------------

\* purchase clicks the model follows
MaxClicks == 3

\* the gateway and the data loader are left alone
Gateway == <<now, ticks, cache, calls, out, stored, cleared, page>>

ShopFrame == UNCHANGED <<Gateway, setup, search, form>>

\* a page load: the scripts run again over the storage the last page left.
\* initializeGameStore constructs the manager (cartCounter 0, light theme),
\* whose setup creates the counter element and runs loadThemePreference,
\* and then calls loadCartFromStorage; the legacy script starts from 0.
PageLoad(works) ==
  /\ shop' = [Restart(loadCartFromStorage(loadThemePreference(
                 [NoShop EXCEPT !.loaded = TRUE,
                                !.storage = shop.storage,
                                !.clicks = shop.clicks], works), works))
               EXCEPT !.ev = [kind |-> "load", answer |-> FALSE, works |-> works]]
  /\ ShopFrame

\* a click on the button of a .jogo card, and the answer to confirm():
\* handlePurchaseClick adds to the cart when confirmed, the legacy handler
\* counts first and takes it back when cancelled
ClickPurchase(answer, works) ==
  /\ shop.loaded
  /\ shop.clicks < MaxClicks
  /\ shop' = [(IF answer THEN addToCart(shop, works) ELSE shop) EXCEPT
                 !.contadorCarrinho = LegacyClick(@, answer),
                 !.confirmed = IF answer THEN @ + 1 ELSE @,
                 !.clicks = @ + 1,
                 !.ev = [kind |-> "click", answer |-> answer, works |-> works]]
  /\ ShopFrame

\* a click on the theme button
ClickTheme(works) ==
  /\ shop.loaded
  /\ shop' = [toggleTheme(shop, works) EXCEPT
                 !.ev = [kind |-> "toggle", answer |-> FALSE, works |-> works]]
  /\ ShopFrame

\* window.clearGameStoreData()
clearGameStoreData(works) ==
  /\ shop.loaded
  /\ shop' = [Restart(clearAllData(shop, works)) EXCEPT
                 !.ev = [kind |-> "clear", answer |-> FALSE, works |-> works]]
  /\ ShopFrame

\* before the first page load the storage holds what earlier visits left
InitShop ==
  /\ now = 0
  /\ ticks = 0
  /\ cache = EmptyCache
  /\ calls = [c \in CallIds |-> IdleCall]
  /\ out = NoOut
  /\ stored = NoStore
  /\ cleared = NoClear
  /\ page = NoPage
  /\ \E count \in StoredCounts, theme \in StoredThemes :
        shop = [NoShop EXCEPT !.storage = [cart |-> count, theme |-> theme]]
  /\ setup = NoSetup
  /\ search = NoSearch
  /\ form = NoForm

NextShop ==
  \/ \E works \in BOOLEAN : PageLoad(works)
  \/ \E answer \in BOOLEAN, works \in BOOLEAN : ClickPurchase(answer, works)
  \/ \E works \in BOOLEAN : ClickTheme(works)
  \/ \E works \in BOOLEAN : clearGameStoreData(works)

SpecShop == InitShop /\ [][NextShop]_vars

\* ---------------------------------------------------------------------
\* GameStoreManager: setupApplication
\* ---------------------------------------------------------------------

\* calls of setupApplication on one instance the model follows
MaxSetups == 3

SetupFrame == UNCHANGED <<Gateway, shop, search, form>>

\* new GameStoreManager(): the constructor resets the fields and calls
\* initializeApplication, which defers setupApplication to DOMContentLoaded
\* while the document is loading and calls it otherwise
NewGameStoreManager(loading, failAt) ==
  /\ loading => failAt = 0
  /\ LET fresh == [NoSetup EXCEPT !.constructed = TRUE]
     IN setup' = [(IF loading
                   THEN [fresh EXCEPT !.listening = TRUE]
                   ELSE setupApplication(fresh, failAt))
                  EXCEPT !.calls = IF loading THEN 0 ELSE 1,
                         !.ev = [kind |-> "new", failAt |-> failAt]]
  /\ SetupFrame

\* the DOMContentLoaded event, delivered once to the listener
DOMContentLoaded(failAt) ==
  /\ setup.listening
  /\ setup' = [setupApplication(setup, failAt) EXCEPT
                  !.listening = FALSE,
                  !.calls = @ + 1,
                  !.ev = [kind |-> "event", failAt |-> failAt]]
  /\ SetupFrame

\* gameStoreApp.setupApplication(), called directly
CallSetupApplication(failAt) ==
  /\ setup.constructed
  /\ setup.calls < MaxSetups
  /\ setup' = [setupApplication(setup, failAt) EXCEPT
                  !.calls = @ + 1,
                  !.ev = [kind |-> "call", failAt |-> failAt]]
  /\ SetupFrame

NextSetup ==
  \/ \E loading \in BOOLEAN, failAt \in FailAts :
       NewGameStoreManager(loading, failAt)
  \/ \E failAt \in FailAts : DOMContentLoaded(failAt)
  \/ \E failAt \in FailAts : CallSetupApplication(failAt)

SpecSetup == Init /\ [][NextSetup]_vars

\* ---------------------------------------------------------------------
\* GameStoreManager: search
\* ---------------------------------------------------------------------

\* the longest term typed, and the characters it is typed with
MaxTermLen == 4

TermChars == {" ", "f", "i", "a", "F"}

Terms == UNION {[1..n -> TermChars] : n \in 0..MaxTermLen}

\* Enter in #campo-pesquisa with the field holding term
KeyupEnter(term) ==
  /\ search' = performSearch(term)
  /\ UNCHANGED <<Gateway, shop, setup, form>>

NextSearch == \E term \in Terms : KeyupEnter(term)

SpecSearch == Init /\ [][NextSearch]_vars

\* ---------------------------------------------------------------------
\* GameStoreManager: contact form
\* ---------------------------------------------------------------------

\* submission delays pending at once the model follows
MaxPending == 2

FormFrame == UNCHANGED <<Gateway, shop, setup, search>>

\* the visitor fills the fields in
Fill(name, email, message) ==
  /\ form' = [form EXCEPT
                 !.ev = "fill",
                 !.fields = [name |-> name, email |-> email, message |-> message],
                 !.notifications = <<>>, !.started = FALSE]
  /\ FormFrame

\* a submit event on #form-contato. The handler does not look at the
\* button, so an event that arrives while a delay is pending (requestSubmit,
\* dispatchEvent, a direct call of the handler) is handled like any other.
SubmitEvent ==
  /\ Len(form.timers) < MaxPending
  /\ form' = handleContactFormSubmit(form)
  /\ FormFrame

\* the oldest pending setTimeout callback runs (equal delays keep their
\* order): notification, contactForm.reset(), the label it kept, enabled
SubmissionDelayElapses ==
  /\ form.timers # <<>>
  /\ form' = [form EXCEPT
                 !.ev = "sent",
                 !.notifications = <<Notification("success", "sent")>>,
                 !.started = FALSE,
                 !.fields = NoForm.fields,
                 !.button = [textContent |-> Head(form.timers).originalText,
                             disabled |-> FALSE],
                 !.timers = Tail(@)]
  /\ FormFrame

NextForm ==
  \/ \E name \in Names, email \in Emails, message \in Messages :
       Fill(name, email, message)
  \/ SubmitEvent
  \/ SubmissionDelayElapses

SpecForm == Init /\ [][NextForm]_vars

\* a request in flight gets its answer: the timer ends a fetch that does not
\* answer, and a body that has begun to arrive ends or fails
Answered(c) ==
  \/ \E status \in Statuses : FetchResolves(c, status)
  \/ FetchRejects(c)
  \/ TimerFires(c)
  \/ \E data \in PageValues : BodyParsed(c, data)
  \/ \E e \in {SyntaxError, NetworkError} : BodyFails(c, e)

\* the page, every request of which gets its answer
SpecHomeFair == SpecHome /\ \A c \in CallIds : WF_vars(Answered(c))

(* ====================================================================== *)
(* Properties                                                             *)
(* ====================================================================== *)
StartEvent  == out.at = "start"
SettleEvent == out.kind \in {"returned", "failed"}
\* the entry of the cache as a call started on it found it fresh
FoundFresh  == out.age >= 0 /\ out.age < FreshMs

\* C1: a call that starts on an entry younger than 5 minutes returns that
\* entry's data, issues no request, starts no timer and leaves the cache as
\* it was.
C1_FreshEntryServed ==
  (StartEvent /\ FoundFresh) =>
    /\ out.kind = "returned"
    /\ out.key \in DOMAIN cache
    /\ out.result = cache[out.key].data
    /\ out.net = 0
    /\ out.timer = "none"
    /\ ~out.wrote
    /\ calls[out.call].pc = "done"

C1_Witness ==
  StartEvent /\ out.kind = "returned" /\ out.age > 0 /\ out.net = 0

\* C2 as stated: a call that starts after a call for the same fingerprint
\* completed, less than 5 minutes after that call stored its entry, issues
\* no request (the two issue one in all) and returns the data that call
\* stored.
C2_Original ==
  (StartEvent /\ stored # NoStore /\ out.key = stored.key
      /\ now - stored.timestamp < FreshMs) =>
    /\ out.kind = "returned"
    /\ out.result = stored.data
    /\ stored.net + out.net = 1

\* the cache still holds the entry the latest successful call stored
StillCached ==
  /\ stored # NoStore
  /\ stored.key \in DOMAIN cache
  /\ cache[stored.key] = [data |-> stored.data, timestamp |-> stored.timestamp]

\* C2 amended: ... provided the entry the first call stored is still in the
\* cache when the second call starts (clearCache has not run since): then
\* the second call issues no request, the two issue exactly one, and the
\* second returns the data the first stored.
C2_SecondCallServed ==
  (StartEvent /\ StillCached /\ out.key = stored.key
      /\ now - stored.timestamp < FreshMs) =>
    /\ out.kind = "returned"
    /\ out.result = stored.data
    /\ stored.net + out.net = 1

C2_Witness ==
  /\ StartEvent /\ StillCached /\ out.key = stored.key
  /\ now - stored.timestamp < FreshMs
  /\ now > stored.timestamp
  /\ out.kind = "returned"
  /\ stored.net = 1

\* the calls other than the one of the last step that are awaiting their
\* response or body for the same fingerprint
OthersInFlight ==
  {d \in CallIds : d # out.call /\ InFlight(d) /\ calls[d].key = out.key}

\* C3 as stated: two calls for the same fingerprint issue at most one
\* request in all, also when the second starts while the first is still
\* awaiting its response.
C3_Original ==
  StartEvent => \A d \in OthersInFlight : calls[d].net + out.net <= 1

\* C3 amended: requests in flight are not shared.  A call that starts while
\* another call for the same fingerprint is still awaiting its response
\* issues a request of its own unless it finds a fresh entry stored: the two
\* calls then issue two requests.
C3_InFlightNotShared ==
  (StartEvent /\ OthersInFlight # {}) =>
    /\ out.net = (IF FoundFresh THEN 0 ELSE 1)
    /\ \A d \in OthersInFlight : calls[d].net = 1
    /\ ~FoundFresh => out.kind = "issued" /\ calls[out.call].pc = "fetching"

C3_Witness ==
  /\ StartEvent /\ out.kind = "issued"
  /\ \E d \in OthersInFlight : calls[d].pc = "fetching" /\ calls[d].net + out.net = 2

\* C4: a call that starts on an expired entry issues exactly one request,
\* and when that request succeeds the entry of its fingerprint is the new
\* data with the time of the store, nothing of the old entry kept.
C4_ExpiredEntryRefetched ==
  /\ (StartEvent /\ out.age >= FreshMs) =>
        out.kind = "issued" /\ out.net = 1 /\ out.timer = "pending"
  /\ (out.found = "present" /\ out.at # "start") => out.net = 1
  /\ (out.found = "present" /\ out.kind = "returned" /\ out.at = "body") =>
        /\ out.key \in DOMAIN cache
        /\ cache[out.key] = [data |-> out.result, timestamp |-> now]

C4_Witness ==
  /\ out.found = "present" /\ out.kind = "returned" /\ out.at = "body"
  /\ out.wrote
  /\ now >= FreshMs

\* C5: cached data is returned only while its age is below 300000 ms; an
\* entry aged exactly 300000 ms is not served but refetched; and the
\* timestamp of an entry is the time its body was parsed and stored, not the
\* time its request was issued.
C5_ServedOnlyWhileFresh ==
  /\ (StartEvent /\ out.kind = "returned") => FoundFresh
  /\ (StartEvent /\ out.age >= 0 /\ ~FoundFresh) => out.kind = "issued"
  /\ (out.kind = "returned" /\ out.at = "body") =>
        /\ out.key \in DOMAIN cache
        /\ cache[out.key].timestamp = now

C5_Witness ==
  StartEvent /\ out.age = FreshMs /\ out.kind = "issued"

\* C6 as stated: a call whose request has not finished, body included, when
\* the 10 seconds have elapsed is aborted and fails by timeout: no call is
\* still awaiting anything after its deadline, and none returns data later
\* than that.
C6_Original ==
  /\ \A c \in CallIds : InFlight(c) => now <= Deadline(calls[c])
  /\ (out.net > 0 /\ out.elapsed > requestTimeout) =>
        out.kind = "failed" /\ out.cause = "timeout"

C8_FailureLeavesCache ==
  /\ out.kind \in {"failed", "issued", "received"} => ~out.wrote
  /\ out.kind = "failed" =>
        /\ out.cause \in {"timeout", "network", "http", "malformed"}
        /\ out.result = NoData

C8_Witness ==
  /\ out.kind = "failed" /\ out.found = "present"
  /\ out.key \in DOMAIN cache
  /\ now - cache[out.key].timestamp >= FreshMs

\* the error object each cause raises inside makeRequest
CauseError ==
  CASE out.cause = "timeout"   -> AbortError
    [] out.cause = "network"   -> NetworkError
    [] out.cause = "malformed" -> SyntaxError
    [] out.cause = "http"      -> [name |-> "Error",
                                   message |-> <<"HTTP error! status: ",
                                                 ToString(out.status)>>]
    [] OTHER                   -> NoError

C10_AccessorsNeverReject ==
  (SettleEvent /\ out.acc # "makeRequest") =>
    /\ out.accState = "resolved"
    /\ out.kind = "failed" => out.accValue = Arr(<<>>)

C10_Witness ==
  /\ out.kind = "failed" /\ out.cause = "timeout"
  /\ out.acc = "fetchRandomUsers"
  /\ out.accState = "resolved" /\ out.accValue = Arr(<<>>)

\* C11: when the catalog answers with a list of N products, fetchProducts
\* and fetchAllProducts resolve to that very list (the same items, in the
\* same order), be it the list the response just carried or the list a
\* fresh cache entry holds from an earlier call.
C11_ProductListUnchanged ==
  (SettleEvent /\ out.acc \in {"fetchProducts", "fetchAllProducts"}
      /\ out.kind = "returned" /\ out.result.type = "array") =>
    /\ out.accState = "resolved"
    /\ out.accValue = out.result
    /\ out.key \in DOMAIN cache
    /\ out.accValue = cache[out.key].data
    /\ out.at = "body" => stored.key = out.key /\ stored.data = out.accValue
    /\ out.at = "start" => out.net = 0 /\ FoundFresh

C11_Witness ==
  /\ StartEvent /\ out.kind = "returned" /\ out.acc = "fetchProducts"
  /\ StillCached /\ stored.key = out.key
  /\ out.accValue = Arr(<<"p1", "p2">>)
  /\ Len(out.accValue.items) = 2

\* C12 as stated: after clearCache the cache has no entry, and the first
\* call since for a fingerprint that clearCache removed issues a request,
\* also when a request for that fingerprint was in flight while clearCache
\* ran.
C12_Original ==
  /\ out.kind = "cleared" => cache = EmptyCache
  /\ (StartEvent /\ cleared.first # "no") => out.kind = "issued" /\ out.net = 1

\* C12 amended: after clearCache the cache has no entry.  The first call
\* since for a fingerprint that clearCache removed finds no entry and issues
\* a request if no request for that fingerprint was in flight when
\* clearCache ran; if one was, that request may have stored its entry in the
\* meantime, and the call issues a request exactly when it finds no fresh
\* entry.
C12_ClearedThenRefetched ==
  /\ out.kind = "cleared" => cache = EmptyCache
  /\ (StartEvent /\ cleared.first = "quiet") =>
        out.found = "absent" /\ out.kind = "issued" /\ out.net = 1
  /\ (StartEvent /\ cleared.first = "busy") =>
        /\ out.kind = "issued" <=> ~FoundFresh
        /\ out.kind = "returned" => out.net = 0 /\ out.result = cache[out.key].data

C12_Witness ==
  /\ StartEvent /\ cleared.first = "busy"
  /\ out.kind = "returned" /\ out.net = 0

\* a call that has settled
Settled(c) == calls[c].pc \in {"done", "settled"}

\* C13: a makeRequest call issues at most one request, and so does the
\* accessor call around it; a failure is handed to the caller in the step it
\* happens (the accessor resolving to the empty list), and the call that
\* failed is over: it never issues a request again.
C13_NoRetry ==
  /\ [](/\ \A c \in DOMAIN calls : calls[c].net <= 1
        /\ out.net <= 1
        /\ out.kind = "failed" =>
              /\ out.net = 1
              /\ Settled(out.call)
              /\ out.accState = "resolved" /\ out.accValue = Arr(<<>>))
  /\ [][\A c \in DOMAIN calls : Settled(c) => Settled(c)']_vars

C13_Witness ==
  /\ out.kind = "failed" /\ out.cause = "network" /\ out.at = "response"
  /\ out.acc = "fetchProducts" /\ out.net = 1
  /\ Settled(out.call)

\* C14 as stated: a call that issues a request starts one timer and has
\* cleared it by the time it settles, on whichever path: no call that has
\* returned or failed has left its timer pending.
C14_Original ==
  /\ \A c \in DOMAIN calls : Settled(c) => calls[c].timer # "pending"
  /\ (SettleEvent /\ out.net > 0) => out.timer # "pending"

\* a call has just stored the body it received
StoreEvent == out.kind = "returned" /\ out.at = "body"

\* C15 as stated: an entry is written over only once it has expired; no
\* completion, late or not, writes over an entry that is still fresh.
C15_Original ==
  (StoreEvent /\ out.replaced >= 0) => out.replaced >= FreshMs

\* C15 amended: every successful completion stores its body under its
\* fingerprint, data and timestamp together, whatever is there.  It writes
\* over a fresh entry exactly when its request was already issued by the
\* time that entry was stored (two requests for the fingerprint were in
\* flight together); a request issued later than a fresh entry's store does
\* not exist, the call being served from the cache.
C15_CompletionOverwrites ==
  StoreEvent =>
    /\ out.key \in DOMAIN cache
    /\ cache[out.key] = [data |-> out.result, timestamp |-> now]
    /\ out.wrote \/ out.replaced = 0
    /\ (out.replaced >= 0 /\ out.replaced < FreshMs) =>
          out.elapsed >= out.replaced

C15_Witness ==
  /\ StoreEvent /\ out.wrote
  /\ out.replaced > 0 /\ out.replaced < FreshMs
  /\ out.found = "absent"

\* C16: entries leave the cache through clearCache only: in every other
\* step the fingerprints of the cache stay and an entry changes only by the
\* store of a call for its fingerprint; a call that starts on an expired
\* entry is not served it and leaves it where it is.
C16_OnlyClearCacheRemoves ==
  /\ [][out'.kind # "cleared" =>
          /\ DOMAIN cache \subseteq DOMAIN cache'
          /\ \A k \in DOMAIN cache :
                cache'[k] # cache[k] =>
                  out'.kind = "returned" /\ out'.at = "body" /\ out'.key = k]_vars
  /\ []((StartEvent /\ out.age >= FreshMs) =>
          /\ out.kind = "issued"
          /\ out.key \in DOMAIN cache
          /\ now - cache[out.key].timestamp = out.age)

C16_Witness ==
  /\ out.kind = "received" /\ out.found = "present"
  /\ out.key \in DOMAIN cache
  /\ now - cache[out.key].timestamp >= FreshMs
  /\ Cardinality(DOMAIN cache) = 1

\* distinct requests (url, options) have distinct fingerprints
KeysDistinct ==
  \A i, j \in DirectCalls :
     i # j => CacheKey(i.url, i.options) # CacheKey(j.url, j.options)

\* C17: calls for different fingerprints do not touch each other.  A step of
\* one call changes that call alone and, in the cache, at most the entry of
\* its own fingerprint, which a store sets to the body that call received:
\* so each call's result and each fingerprint's entry are the same in either
\* order of completion, and no outcome of one call (data, failure, timeout)
\* changes the other call or its entry.
C17_DifferentKeysIndependent ==
  /\ [](KeysDistinct)
  /\ [](StoreEvent =>
          /\ cache[out.key].data = out.result
          /\ stored.key = out.key /\ stored.data = out.result)
  /\ [][out'.call # 0 =>
          /\ \A d \in DOMAIN calls \ {out'.call} : calls'[d] = calls[d]
          /\ DOMAIN cache' \subseteq DOMAIN cache \cup {out'.key}
          /\ \A k \in DOMAIN cache \ {out'.key} :
                k \in DOMAIN cache' /\ cache'[k] = cache[k]]_vars

C17_Witness ==
  /\ StoreEvent
  /\ \E d \in DOMAIN calls :
        /\ d # out.call /\ calls[d].pc = "parsing"
        /\ calls[d].key # out.key
        /\ calls[d].key \notin DOMAIN cache

\* C18: the timer of a call aborts the request of that call only.  When it
\* fires, every other call, in flight or not, and the cache stay as they
\* are; if its own request has already finished nothing happens at all; and
\* a call fails by timeout only when its own 10 seconds have passed.
C18_TimeoutIsPerRequest ==
  /\ [][\A c \in DOMAIN calls :
          TimerFires(c) =>
            /\ \A d \in DOMAIN calls \ {c} : calls'[d] = calls[d]
            /\ cache' = cache
            /\ IF calls[c].pc = "fetching"
               THEN out'.kind = "failed" /\ out'.cause = "timeout" /\ out'.call = c
               ELSE out' = NoOut]_vars
  /\ [](out.cause = "timeout" =>
          out.at = "timer" /\ out.elapsed >= requestTimeout)

C18_Witness ==
  /\ out.kind = "failed" /\ out.cause = "timeout"
  /\ \E d \in DOMAIN calls :
        /\ d # out.call /\ calls[d].pc = "fetching" /\ calls[d].timer = "pending"
        /\ now < Deadline(calls[d])

Shown(section) == section.show \in {"items", "empty", "error"}

\* a list none of whose items the renderers throw on
WellFormed(items) == \A i \in 1..Len(items) : items[i] # Broken

\* C20: loadHomepageData starts the product load and the user load
\* together; each fills its own section from the outcome of its own request
\* and leaves the other section alone, whichever settles first and however;
\* the promise of loadHomepageData resolves exactly when both have settled,
\* and it never rejects.
C20_HomeLoadsIndependent ==
  /\ [](/\ page.home \in {"idle", "pending", "resolved"}
        /\ page.home = "idle" <=> page.products.show = "idle"
        /\ page.home = "idle" <=> page.users.show = "idle"
        /\ page.home = "resolved" <=> Shown(page.products) /\ Shown(page.users))
  /\ []((SettleEvent /\ out.acc = "fetchProducts") =>
          /\ out.kind = "failed" => page.products.show = "empty"
          /\ (out.kind = "returned" /\ out.result.type = "array") =>
                page.products = IF WellFormed(out.result.items)
                                THEN [show |-> "items", items |-> out.result.items]
                                ELSE [show |-> "error", items |-> <<>>])
  /\ []((SettleEvent /\ out.acc = "fetchRandomUsers") =>
          /\ out.kind = "failed" => page.users.show = "empty"
          /\ (out.kind = "returned" /\ out.result.hasResults) =>
                page.users = IF WellFormed(out.result.results)
                             THEN [show |-> "items", items |-> out.result.results]
                             ELSE [show |-> "error", items |-> <<>>])
  /\ [][/\ out'.acc = "fetchProducts" => page'.users = page.users
        /\ out'.acc = "fetchRandomUsers" => page'.products = page.products
        /\ Shown(page.products) => page'.products = page.products
        /\ Shown(page.users) => page'.users = page.users]_vars

C20_Witness ==
  /\ out.kind = "failed" /\ out.cause = "timeout" /\ out.acc = "fetchProducts"
  /\ page.products.show = "empty"
  /\ page.users = [show |-> "items", items |-> <<"u1">>]
  /\ page.home = "resolved"

\* the sections a load fills
Sections == {"products", "users", "catalog"}

C22_Original ==
  [](shop.ev.kind = "click" => shop.cartCounter = shop.contadorCarrinho)

\* C22: after any run of completed purchase clicks each counter equals the
\* value it had when the run started plus the number of confirmed clicks
\* (a cancelled click leaves both as they were), so the two differ by what
\* they differed by at the start: cartCounter starts from the stored count,
\* contadorCarrinho from 0, and they are equal only when those are.
C22_CountersMoveTogether ==
  /\ [](shop.loaded =>
          /\ shop.cartCounter = shop.start.cartCounter + shop.confirmed
          /\ shop.contadorCarrinho = shop.start.contadorCarrinho + shop.confirmed)
  /\ [][shop'.ev.kind = "click" =>
          /\ shop'.cartCounter - shop.cartCounter
               = IF shop'.ev.answer THEN 1 ELSE 0
          /\ shop'.cartCounter - shop'.contadorCarrinho
               = shop.cartCounter - shop.contadorCarrinho]_vars

C22_Witness ==
  /\ shop.ev.kind = "click" /\ ~shop.ev.answer
  /\ shop.confirmed = 1
  /\ shop.start.cartCounter = 9
  /\ shop.cartCounter = 10 /\ shop.contadorCarrinho = 1

\* C23: a confirmed purchase whose write succeeds leaves the decimal text of
\* cartCounter under gamestore_cart_count, and a page load that finds the
\* text of cartCounter = n >= 1 there (storage readable) has cartCounter = n
\* after loadCartFromStorage, shown in the counter element too.
C23_CartPersists ==
  /\ []((shop.ev.kind = "click" /\ shop.ev.answer /\ shop.ev.works) =>
          shop.storage.cart = Item(NumberToString(shop.cartCounter)))
  /\ [][(/\ shop'.ev.kind = "load" /\ shop'.ev.works
          /\ shop.cartCounter >= 1
          /\ shop.storage.cart = Item(NumberToString(shop.cartCounter))) =>
          /\ shop'.cartCounter = shop.cartCounter
          /\ shop'.display = NumberToString(shop.cartCounter)
          /\ shop'.storage = shop.storage]_vars

C23_Witness ==
  /\ shop.ev.kind = "load" /\ shop.ev.works
  /\ shop.cartCounter = 11
  /\ shop.storage.cart = Item(<<"1", "1">>)
  /\ shop.clicks = 2

\* C24 as stated: after any toggle the stored theme is 'dark' exactly when
\* isDarkMode is true.
C24_Original ==
  [](shop.ev.kind = "toggle" =>
       (shop.storage.theme = Item(Dark) <=> shop.isDarkMode))

\* C24: every toggleTheme call flips isDarkMode and applies it to the page;
\* when its storage write succeeds the stored gamestore_theme is 'dark'
\* exactly when isDarkMode is true (a failed write leaves the old text);
\* and a page load that can read a stored theme agreeing with isDarkMode
\* has the same isDarkMode, applied, afterwards.
C24_ThemePersists ==
  /\ [](shop.applied = IF shop.isDarkMode THEN "dark" ELSE "light")
  /\ [][shop'.ev.kind = "toggle" =>
          /\ shop'.isDarkMode = ~shop.isDarkMode
          /\ shop'.cartCounter = shop.cartCounter
          /\ shop'.ev.works \/ shop'.storage = shop.storage]_vars
  /\ []((shop.ev.kind = "toggle" /\ shop.ev.works) =>
          /\ (shop.storage.theme = Item(Dark) <=> shop.isDarkMode)
          /\ (shop.storage.theme = Item(Light) <=> ~shop.isDarkMode))
  /\ [][(/\ shop'.ev.kind = "load" /\ shop'.ev.works
          /\ (shop.storage.theme = Item(Dark) <=> shop.isDarkMode)) =>
          /\ shop'.isDarkMode = shop.isDarkMode
          /\ shop'.storage = shop.storage]_vars

C24_Witness ==
  /\ shop.ev.kind = "toggle" /\ ~shop.ev.works
  /\ ~shop.isDarkMode
  /\ shop.storage.theme = Item(Dark)

\* C25 as stated: cartCounter is never negative.
C25_Original == shop.cartCounter >= 0

\* C26 as stated: a clearAllData that reaches the storage sets cartCounter to
\* 0, removes both keys, leaves isDarkMode and the applied theme alone, and
\* the stored theme still says what isDarkMode says.
C26_Original ==
  [][(shop'.ev.kind = "clear" /\ shop'.ev.works) =>
       /\ shop'.cartCounter = 0
       /\ shop'.storage = [cart |-> Absent, theme |-> Absent]
       /\ shop'.isDarkMode = shop.isDarkMode
       /\ shop'.applied = shop.applied
       /\ (shop'.storage.theme = Item(Dark) <=> shop'.isDarkMode)]_vars

\* a call of setupApplication on the instance there (not by its constructor)
LaterCall == setup'.ev.kind \in {"event", "call"}

\* C27: the body of setupApplication completes at most once per instance
\* whoever calls it; a call on an initialized instance runs no step and
\* changes nothing; a call in which a step throws runs the steps before it
\* and none from it on, and leaves isInitialized false.
C27_SetupCompletesOnce ==
  /\ [](/\ setup.completed <= 1
        /\ setup.isInitialized <=> setup.completed = 1
        /\ \A i \in DOMAIN setup.ran :
              /\ setup.isInitialized => setup.ran[i] >= 1
              /\ setup.ran[i] <= setup.calls)
  /\ [][(LaterCall /\ setup.isInitialized) =>
          /\ setup'.ran = setup.ran
          /\ setup'.completed = setup.completed
          /\ setup'.isInitialized]_vars
  /\ [][(LaterCall /\ ~setup.isInitialized /\ setup'.ev.failAt > 0) =>
          /\ ~setup'.isInitialized
          /\ setup'.completed = setup.completed
          /\ \A i \in DOMAIN setup.ran :
                setup'.ran[i] = IF i < setup'.ev.failAt
                                THEN setup.ran[i] + 1 ELSE setup.ran[i]]_vars
  /\ []((setup.ev.kind = "new" /\ setup.ev.failAt > 0) =>
          /\ ~setup.isInitialized
          /\ \A i \in DOMAIN setup.ran :
                setup.ran[i] = IF i < setup.ev.failAt THEN 1 ELSE 0)

C27_Witness ==
  /\ setup.ev.kind = "call" /\ setup.ev.failAt = 2
  /\ setup.isInitialized /\ setup.completed = 1
  /\ setup.calls = 3
  /\ setup.ran[1] = 2 /\ setup.ran[3] = 1

\* the entries of the game list that contain term, whatever the case
Containing(term) ==
  LET contains(game) == Includes(ToLowerCase(game), ToLowerCase(term))
  IN SelectSeq(gamesList, contains)

\* C28 as stated: a term whose trimmed form has at least 3 characters is
\* searched, and the games reported are exactly those containing the
\* trimmed term case-insensitively; any other term yields one warning and
\* no search.
C28_Original ==
  search.ev = "search" =>
    IF Len(Trim(search.term)) >= 3
    THEN /\ search.searched
         /\ search.results = Containing(Trim(search.term))
         /\ Len(search.notifications) = 1
         /\ search.notifications[1].type =
              IF search.results = <<>> THEN "info" ELSE "success"
    ELSE /\ ~search.searched
         /\ search.results = <<>>
         /\ Len(search.notifications) = 1
         /\ search.notifications[1].type = "warning"

\* local@domain.tld: no white space, one @ with text before it, and a dot
\* inside what follows the @
EmailShape(email) ==
  LET ats == {i \in 1..Len(email) : email[i] = "@"}
  IN /\ \A i \in 1..Len(email) : email[i] # " "
     /\ Cardinality(ats) = 1
     /\ \A at \in ats :
           /\ at > 1
           /\ \E dot \in (at + 2)..(Len(email) - 1) : email[dot] = "."

\* the first check the trimmed fields fail, in the order name, email, message
FirstFailing(fields) ==
  CASE Trim(fields.name) = <<>>           -> "name"
    [] ~EmailShape(Trim(fields.email))    -> "email"
    [] Len(Trim(fields.message)) < 10     -> "message"
    [] OTHER                              -> "none"

\* C29: a submit starts simulateFormSubmission exactly when the trimmed name
\* is non-empty, the trimmed email has the shape local@domain.tld and the
\* trimmed message has 10 characters or more, and then shows no error;
\* otherwise it shows one error notification, about the first failing check
\* in the order name, email, message, and touches neither the button, the
\* fields nor the pending delays.
C29_SubmitOnlyWhenValid ==
  /\ [](form.ev = "submit" =>
          IF FirstFailing(form.fields) = "none"
          THEN form.started /\ form.notifications = <<>>
          ELSE /\ ~form.started
               /\ form.notifications =
                    <<Notification("error", FirstFailing(form.fields))>>)
  /\ [][form'.ev = "submit" =>
          IF form'.started
          THEN /\ Len(form'.timers) = Len(form.timers) + 1
               /\ form'.button.disabled
               /\ form'.fields = form.fields
          ELSE /\ form'.timers = form.timers
               /\ form'.button = form.button
               /\ form'.fields = form.fields]_vars

C29_Witness ==
  /\ form.ev = "submit" /\ ~form.started
  /\ form.fields.name = <<" ", "A", "n", "a">>
  /\ form.fields.email = <<"a", "@", "b", ".">>
  /\ form.fields.message = <<>>
  /\ form.notifications = <<Notification("error", "email")>>

\* C30 as stated: while a submission delay is pending the button is disabled
\* and reads 'Enviando...'; once none is pending it is enabled and shows
\* the label it had before the first submission.
C30_Original ==
  IF form.timers # <<>>
  THEN form.button = [textContent |-> "Enviando...", disabled |-> TRUE]
  ELSE form.button = NoForm.button

====
